---- MODULE Spec2Model ----
(***************************************************************************)
(* A model of protoc-gen-namer (src/main.go): the plugin that maps every   *)
(* schema full name to the identifier the Swift generator produces for it. *)
(*                                                                         *)
(* Go strings are modelled as TLA+ strings; TLC evaluates Len, \o and      *)
(* SubSeq on them, so a rune of an ASCII string is SubSeq(s, i, i).        *)
(***************************************************************************)
EXTENDS Integers, Sequences, FiniteSets, TLC

VARIABLES
    san,        \* the sanitizer harness: inputs drawn in Init, outputs of sanitizeTypeName
    tr,         \* the transform harness: input name and the output of transform
    res,        \* the resolver harness: a descriptor node and its generated identifier
    request,    \* main: what standard input holds: a CodeGeneratorRequest, or bytes that do not decode
    pc,         \* main: position in main()
    fileIdx,    \* main: index of the file of req.ProtoFile being processed
    cursor,     \* main: position inside the current file's loops
    buf,        \* main: the strings.Builder, as the sequence of lines written
    stderr,     \* main: lines written to os.Stderr
    stdout,     \* main: what was written to os.Stdout (the response's file content)
    exit        \* main: the exit status once the process has exited, << >> before

vars == <<san, tr, res, request, pc, fileIdx, cursor, buf, stderr, stdout, exit>>

mainVars == <<request, pc, fileIdx, cursor, buf, stderr, stdout, exit>>

(***************************************************************************)
(* String helpers (package strings).                                       *)
(***************************************************************************)
Char(s, i) == SubSeq(s, i, i)

HasSuffix(s, suffix) ==
    /\ Len(s) >= Len(suffix)
    /\ SubSeq(s, Len(s) - Len(suffix) + 1, Len(s)) = suffix

HasPrefix(s, prefix) ==
    /\ Len(s) >= Len(prefix)
    /\ SubSeq(s, 1, Len(prefix)) = prefix

TrimSuffix(s, suffix) == SubSeq(s, 1, Len(s) - Len(suffix))

(***************************************************************************)
(* The reserved-word table, as populated once init() has run.              *)
(***************************************************************************)
swiftKeywordsUsedInDeclarations ==
    { "associatedtype", "class", "deinit", "enum", "extension",
      "fileprivate", "func", "import", "init", "inout", "internal",
      "let", "open", "operator", "private", "protocol", "public",
      "static", "struct", "subscript", "typealias", "var" }

swiftKeywordsUsedInStatements ==
    { "break", "case",
      "continue", "default", "defer", "do", "else", "fallthrough",
      "for", "guard", "if", "in", "repeat", "return", "switch", "where",
      "while" }

swiftKeywordsUsedInExpressionsAndTypes ==
    { "as",
      "Any", "catch", "false", "is", "nil", "rethrows", "super", "self",
      "Self", "throw", "throws", "true", "try" }

swiftCommonTypes ==
    { "Bool", "Data", "Double", "Float", "Int",
      "Int32", "Int64", "String", "UInt", "UInt32", "UInt64" }

swiftSpecialVariables ==
    { "__COLUMN__",
      "__FILE__", "__FUNCTION__", "__LINE__" }

reservedNamesLiteral ==
    { "SwiftProtobuf", "Extensions", "protoMessageName", "decodeMessage",
      "traverse", "isInitialized", "unknownFields", "debugDescription",
      "description", "dynamicType", "hashValue", "Type", "Protocol" }

reservedNames ==
    reservedNamesLiteral
        \cup swiftKeywordsUsedInDeclarations
        \cup swiftKeywordsUsedInStatements
        \cup swiftKeywordsUsedInExpressionsAndTypes
        \cup swiftCommonTypes
        \cup swiftSpecialVariables

(***************************************************************************)
(* The Identifier Sanitizer.                                               *)
(***************************************************************************)
\* isAllUnderscore without the guard on the empty string.
isAllUnderscoreVacuous(name) ==
    \A i \in 1..Len(name) : Char(name, i) = "_"

isAllUnderscore(name) ==
    IF Len(name) = 0
    THEN FALSE
    ELSE \A i \in 1..Len(name) : Char(name, i) = "_"

\* sanitizeTypeName with the suffix-stripping branch left out.
sanitizeNoStrip(name, disambiguator) ==
    IF name \in reservedNames THEN name \o disambiguator
    ELSE IF isAllUnderscore(name) THEN name \o disambiguator
    ELSE name

\* sanitizeTypeName testing the suffix before the reserved-word table.
RECURSIVE sanitizeSuffixFirst(_, _)
sanitizeSuffixFirst(name, disambiguator) ==
    IF HasSuffix(name, disambiguator)
    THEN sanitizeSuffixFirst(TrimSuffix(name, disambiguator), disambiguator)
             \o disambiguator
    ELSE IF name \in reservedNames THEN name \o disambiguator
    ELSE IF isAllUnderscore(name) THEN name \o disambiguator
    ELSE name

\* sanitizeTypeName re-appending the suffix only when the stripped name was changed.
RECURSIVE sanitizeStripOnce(_, _)
sanitizeStripOnce(name, disambiguator) ==
    IF name \in reservedNames THEN name \o disambiguator
    ELSE IF isAllUnderscore(name) THEN name \o disambiguator
    ELSE IF HasSuffix(name, disambiguator)
    THEN LET inner == TrimSuffix(name, disambiguator)
         IN  IF sanitizeStripOnce(inner, disambiguator) = inner
             THEN name
             ELSE inner \o disambiguator
    ELSE name

RECURSIVE sanitizeTypeName(_, _)
sanitizeTypeName(name, disambiguator) ==
    IF name \in reservedNames THEN name \o disambiguator
    ELSE IF isAllUnderscore(name) THEN name \o disambiguator
    ELSE IF HasSuffix(name, disambiguator)
    THEN sanitizeTypeName(TrimSuffix(name, disambiguator), disambiguator)
             \o disambiguator
    ELSE name

sanitizeMessage(name) == sanitizeTypeName(name, "Message")

sanitizeEnum(name) == sanitizeTypeName(name, "Enum")

sanitizeOneof(name) == sanitizeTypeName(name, "Oneof")

\* The three entity kinds, each bound to the suffix of the same name.
Kinds == { "Message", "Enum", "Oneof" }

(***************************************************************************)
(* The sanitizer harness: Init draws two candidates and a kind, the        *)
(* actions apply sanitizeTypeName once and then once more to its output.   *)
(***************************************************************************)
MaxSuffixes == 2

SanBases == { "", "_", "__", "Type", "decode", "Foo", "self", "TypeM" }

RECURSIVE SuffixRuns(_)
SuffixRuns(n) ==
    IF n = 0 THEN { "" }
    ELSE SuffixRuns(n - 1)
             \cup { r \o k : r \in SuffixRuns(n - 1), k \in Kinds }

SanCandidates == { b \o r : b \in SanBases, r \in SuffixRuns(MaxSuffixes) }

Idle == [pc |-> "idle"]

MainIdle ==
    /\ request = Idle
    /\ pc = "idle"
    /\ fileIdx = 0
    /\ cursor = Idle
    /\ buf = << >>
    /\ stderr = << >>
    /\ stdout = << >>
    /\ exit = << >>

InitSanitize ==
    /\ san \in { [pc |-> "start", a |-> a, b |-> b, kind |-> k,
                  outA |-> "", outB |-> "", twice |-> ""] :
                 a \in SanCandidates, b \in SanCandidates, k \in Kinds }
    /\ tr = Idle
    /\ res = Idle
    /\ MainIdle

SanitizeOnce ==
    /\ san.pc = "start"
    /\ san' = [san EXCEPT !.pc = "once",
                          !.outA = sanitizeTypeName(san.a, san.kind),
                          !.outB = sanitizeTypeName(san.b, san.kind)]
    /\ UNCHANGED <<tr, res, mainVars>>

SanitizeAgain ==
    /\ san.pc = "once"
    /\ san' = [san EXCEPT !.pc = "twice",
                          !.twice = sanitizeTypeName(san.outA, san.kind)]
    /\ UNCHANGED <<tr, res, mainVars>>

NextSanitize == SanitizeOnce \/ SanitizeAgain

SpecSanitize == InitSanitize /\ [][NextSanitize]_vars

\* C2 (as stated): sanitizing an already-sanitized name under the same kind
\* returns it unchanged: sanitize(sanitize(n, k), k) = sanitize(n, k).
C2_Idempotent ==
    san.pc = "twice" => san.twice = san.outA

\* C2 (amended): a second pass returns the first pass's output unchanged exactly
\* when the first pass left the candidate unchanged; when the first pass appended
\* the kind's suffix, the second pass appends it once more.
C2_SecondPassGrows ==
    san.pc = "twice" =>
        /\ (san.twice = san.outA) <=> (san.outA = san.a)
        /\ san.outA # san.a =>
              /\ san.outA = san.a \o san.kind
              /\ san.twice = san.outA \o san.kind

\* C2 witness: "Type" is sanitized to "TypeMessage", and that again to
\* "TypeMessageMessage".
C2_Witness ==
    /\ san.pc = "twice"
    /\ san.a = "Type"
    /\ san.kind = "Message"
    /\ san.outA = "TypeMessage"
    /\ san.twice = "TypeMessageMessage"

\* C9: for a fixed kind, sanitizeTypeName is injective: two different
\* candidates never sanitize to the same identifier.
C9_Injective ==
    (san.pc = "once" /\ san.a # san.b) => san.outA # san.outB

\* C9 witness: the reserved "Type" and the candidate literally named
\* "TypeMessage" are kept apart.
C9_Witness ==
    /\ san.pc = "once"
    /\ san.a = "Type"
    /\ san.b = "TypeMessage"
    /\ san.kind = "Message"
    /\ san.outA = "TypeMessage"
    /\ san.outB = "TypeMessageMessage"

\* C10: the string sanitizeTypeName returns is never an entry of the
\* reserved-word table and never a non-empty string of underscores only.
C10_NeverReserved ==
    san.pc = "once" =>
        /\ san.outA \notin reservedNames
        /\ ~isAllUnderscore(san.outA)

\* C10 witness: a reserved entry that itself ends in the kind's suffix has been
\* sanitized.
C10_Witness ==
    /\ san.pc = "once"
    /\ san.a = "decodeMessage"
    /\ san.kind = "Message"
    /\ san.outA = "decodeMessageMessage"

(***************************************************************************)
(* Runes.  The names the model feeds to the program are ASCII; a rune is   *)
(* a one-character string and RuneOf gives its code point.                 *)
(***************************************************************************)
AsciiLow ==
    " !\"#$%&'()*+,-./0123456789:;<=>?@ABCDEFGHIJKLMNOPQRSTUVWXYZ[\\]^_"

AsciiHigh == "abcdefghijklmnopqrstuvwxyz{|}~"

\* U+0020..U+005F are AsciiLow, U+0061..U+007E are AsciiHigh.
RuneOf(c) ==
    IF \E i \in 1..Len(AsciiLow) : Char(AsciiLow, i) = c
    THEN 31 + (CHOOSE i \in 1..Len(AsciiLow) : Char(AsciiLow, i) = c)
    ELSE 96 + (CHOOSE i \in 1..Len(AsciiHigh) : Char(AsciiHigh, i) = c)

RuneToString(n) ==
    IF n <= 95 THEN Char(AsciiLow, n - 31) ELSE Char(AsciiHigh, n - 96)

\* unicode.ToUpper, unicode.ToLower and unicode.IsNumber on ASCII runes.
ToUpperRune(c) ==
    IF RuneOf(c) >= RuneOf("a") /\ RuneOf(c) <= RuneOf("z")
    THEN RuneToString(RuneOf(c) - 32)
    ELSE c

ToLowerRune(c) ==
    IF RuneOf(c) >= RuneOf("A") /\ RuneOf(c) <= RuneOf("Z")
    THEN RuneToString(RuneOf(c) + 32)
    ELSE c

IsNumberRune(c) == RuneOf(c) >= RuneOf("0") /\ RuneOf(c) <= RuneOf("9")

\* strings.ToUpper
RECURSIVE ToUpperString(_)
ToUpperString(s) ==
    IF Len(s) = 0 THEN ""
    ELSE ToUpperRune(Char(s, 1)) \o ToUpperString(SubSeq(s, 2, Len(s)))

\* The %d verb of fmt.Fprintf, for a non-negative integer.
RECURSIVE FormatDecimal(_)
FormatDecimal(n) ==
    IF n < 10 THEN RuneToString(RuneOf("0") + n)
    ELSE FormatDecimal(n \div 10) \o RuneToString(RuneOf("0") + (n % 10))

(***************************************************************************)
(* The Identifier Classifier, over code points.                            *)
(***************************************************************************)
InRange(c, lo, hi) == c >= lo /\ c <= hi

isSwiftIdentifierHeadCharacter(c) ==
    \/ InRange(c, 97, 122) \/ InRange(c, 65, 90)
    \/ c = 95
    \/ c = 168 \/ c = 170 \/ c = 173 \/ c = 175
    \/ InRange(c, 178, 181) \/ InRange(c, 183, 186)
    \/ InRange(c, 188, 190) \/ InRange(c, 192, 214)
    \/ InRange(c, 216, 246) \/ InRange(c, 248, 255)
    \/ InRange(c, 256, 767) \/ InRange(c, 880, 5759)
    \/ InRange(c, 5761, 6157) \/ InRange(c, 6159, 7615)
    \/ InRange(c, 7680, 8191)
    \/ InRange(c, 8203, 8205) \/ InRange(c, 8234, 8238)
    \/ c = 8255 \/ c = 8256 \/ c = 8276 \/ InRange(c, 8288, 8303)
    \/ InRange(c, 8304, 8399) \/ InRange(c, 8448, 8591)
    \/ InRange(c, 9312, 9471) \/ InRange(c, 10102, 10131)
    \/ InRange(c, 11264, 11775) \/ InRange(c, 11904, 12287)
    \/ InRange(c, 12292, 12295) \/ InRange(c, 12321, 12335)
    \/ InRange(c, 12337, 12351) \/ InRange(c, 12352, 55295)
    \/ InRange(c, 63744, 64829) \/ InRange(c, 64832, 64975)
    \/ InRange(c, 65008, 65055) \/ InRange(c, 65072, 65092)
    \/ InRange(c, 65095, 65533)
    \/ \E plane \in 1..14 : InRange(c, plane * 65536, plane * 65536 + 65533)

isSwiftIdentifierCharacter(c) ==
    \/ InRange(c, 48, 57)
    \/ InRange(c, 768, 879) \/ InRange(c, 7616, 7679)
    \/ InRange(c, 8400, 8447) \/ InRange(c, 65056, 65071)
    \/ isSwiftIdentifierHeadCharacter(c)

(***************************************************************************)
(* The CamelCase Transformer.                                              *)
(***************************************************************************)
appreviations == { "url", "http", "https", "id" }

toCharKind(c) ==
    IF RuneOf(c) >= RuneOf("0") /\ RuneOf(c) <= RuneOf("9") THEN "digit"
    ELSE IF RuneOf(c) >= RuneOf("a") /\ RuneOf(c) <= RuneOf("z") THEN "lower"
    ELSE IF RuneOf(c) >= RuneOf("A") /\ RuneOf(c) <= RuneOf("Z") THEN "upper"
    ELSE IF c = "_" THEN "underscore"
    ELSE "other"

uppercaseFirstCharacter(s) ==
    IF Len(s) = 0 THEN s
    ELSE ToUpperRune(Char(s, 1)) \o SubSeq(s, 2, Len(s))

\* The closure addCurrent of transform; st holds result, current and lastKind.
addCurrent(st, initialUpperCase) ==
    IF Len(st.current) = 0 THEN st
    ELSE LET currentAsString ==
                 IF Len(st.result) = 0 /\ ~initialUpperCase THEN st.current
                 ELSE IF st.current \in appreviations
                      THEN ToUpperString(st.current)
                      ELSE uppercaseFirstCharacter(st.current)
         IN  [st EXCEPT !.result = st.result \o currentAsString,
                        !.current = ""]

\* The underscore case, writing one "_" for a whole run of underscores.
caseUnderscoreCollapse(st, initialUpperCase) ==
    LET s1 == addCurrent(st, initialUpperCase)
    IN  IF st.lastKind = "underscore" /\ ~HasSuffix(s1.result, "_")
        THEN [s1 EXCEPT !.result = s1.result \o "_"]
        ELSE s1

\* case underscore of transform's switch.
caseUnderscore(st, initialUpperCase) ==
    LET s1 == addCurrent(st, initialUpperCase)
    IN  IF st.lastKind = "underscore"
        THEN [s1 EXCEPT !.result = s1.result \o "_"]
        ELSE s1

\* One iteration of transform's loop over the runes of name.
transformRune(st, c, initialUpperCase) ==
    LET kind == toCharKind(c)
        next ==
            CASE kind = "digit" ->
                   LET s1 == IF st.lastKind # "digit"
                             THEN addCurrent(st, initialUpperCase) ELSE st
                       s2 == IF Len(s1.result) = 0
                             THEN [s1 EXCEPT !.result = s1.result \o "_"] ELSE s1
                   IN  [s2 EXCEPT !.current = s2.current \o c]
              [] kind = "upper" ->
                   LET s1 == IF st.lastKind # "upper"
                             THEN addCurrent(st, initialUpperCase) ELSE st
                   IN  [s1 EXCEPT !.current = s1.current \o ToLowerRune(c)]
              [] kind = "lower" ->
                   LET s1 == IF st.lastKind # "lower" /\ st.lastKind # "upper"
                             THEN addCurrent(st, initialUpperCase) ELSE st
                   IN  [s1 EXCEPT !.current = s1.current \o c]
              [] kind = "underscore" -> caseUnderscore(st, initialUpperCase)
              [] kind = "other" ->
                   LET s1 == addCurrent(st, initialUpperCase)
                       escapeIt ==
                           IF Len(s1.result) = 0
                           THEN ~isSwiftIdentifierHeadCharacter(RuneOf(c))
                           ELSE ~isSwiftIdentifierCharacter(RuneOf(c))
                   IN  IF escapeIt
                       THEN [s1 EXCEPT !.result =
                                s1.result \o "_u" \o FormatDecimal(RuneOf(c))]
                       ELSE [s1 EXCEPT !.current = s1.current \o c]
    IN  [next EXCEPT !.lastKind = kind]

RECURSIVE transformFrom(_, _, _, _)
transformFrom(st, name, i, initialUpperCase) ==
    IF i > Len(name) THEN st
    ELSE transformFrom(transformRune(st, Char(name, i), initialUpperCase),
                       name, i + 1, initialUpperCase)

transform(name, initialUpperCase) ==
    LET start == [result |-> "", current |-> "", lastKind |-> "other"]
        looped == transformFrom(start, name, 1, initialUpperCase)
        last == addCurrent(looped, initialUpperCase)
    IN  IF last.lastKind = "underscore"
        THEN last.result \o "_"
        ELSE last.result

toUpperCamelCase(name) == transform(name, TRUE)

(***************************************************************************)
(* The transform harness: Init draws two words and the length of the run   *)
(* of underscores between them; the action applies transform.              *)
(***************************************************************************)
MaxRun == 3

TrWords == { "a", "b", "foo", "id", "URL", "httpStatus", "x9" }

RECURSIVE Underscores(_)
Underscores(k) == IF k = 0 THEN "" ELSE "_" \o Underscores(k - 1)

RECURSIVE CountUnderscores(_)
CountUnderscores(s) ==
    IF Len(s) = 0 THEN 0
    ELSE (IF Char(s, 1) = "_" THEN 1 ELSE 0)
             + CountUnderscores(SubSeq(s, 2, Len(s)))

InitTransform ==
    /\ tr \in { [pc |-> "start", left |-> l, k |-> k, right |-> r,
                 capitalize |-> cap,
                 name |-> l \o Underscores(k) \o r, out |-> ""] :
                l \in TrWords, r \in TrWords, k \in 1..MaxRun,
                cap \in BOOLEAN }
    /\ san = Idle
    /\ res = Idle
    /\ MainIdle

ApplyTransform ==
    /\ tr.pc = "start"
    /\ tr' = [tr EXCEPT !.pc = "done",
                        !.out = transform(tr.name, tr.capitalize)]
    /\ UNCHANGED <<san, res, mainVars>>

NextTransform == ApplyTransform

SpecTransform == InitTransform /\ [][NextTransform]_vars

\* C8 (as stated): a run of k >= 2 underscores between two words contributes
\* exactly one "_" to the output, and a single underscore contributes none.
C8_RunCollapses ==
    tr.pc = "done" =>
        CountUnderscores(tr.out) = (IF tr.k >= 2 THEN 1 ELSE 0)

\* C8 (amended): a run of k underscores between two words contributes exactly
\* k - 1 "_" to the output: none for k = 1, one for k = 2, two for k = 3.
C8_RunShrinksByOne ==
    tr.pc = "done" =>
        /\ CountUnderscores(tr.out) = tr.k - 1
        /\ tr.out = transform(tr.left, tr.capitalize)
                        \o Underscores(tr.k - 1)
                        \o transform(tr.right, TRUE)

\* C8 witness: "a___b" yields "A__B".
C8_Witness ==
    /\ tr.pc = "done"
    /\ tr.name = "a___b"
    /\ tr.capitalize
    /\ tr.out = "A__B"

(***************************************************************************)
(* Descriptors (package protoreflect).  A message, enum or oneof           *)
(* descriptor is its file, the names of the messages enclosing it          *)
(* (outermost first) and its own name; Parent() is the innermost           *)
(* enclosing message, or the file when there is none.                      *)
(***************************************************************************)
Descriptor(file, parents, name) ==
    [file |-> file, parents |-> parents, name |-> name]

\* The type assertion Parent().(protoreflect.MessageDescriptor) and its ok.
ParentIsMessage(d) == Len(d.parents) > 0

ParentMessage(d) ==
    Descriptor(d.file, SubSeq(d.parents, 1, Len(d.parents) - 1),
               d.parents[Len(d.parents)])

\* protoreflect's FullName(): the package and the enclosing names, dot-joined.
RECURSIVE JoinDots(_)
JoinDots(names) ==
    IF Len(names) = 0 THEN ""
    ELSE IF Len(names) = 1 THEN names[1]
    ELSE names[1] \o "." \o JoinDots(Tail(names))

FullName(d) ==
    JoinDots((IF Len(d.file.package) = 0 THEN << >> ELSE <<d.file.package>>)
                 \o d.parents \o <<d.name>>)

(***************************************************************************)
(* The Type-Prefix Deriver.                                                *)
(***************************************************************************)
\* One iteration of typePrefixInternal's loop; st holds ret and makeUpper.
typePrefixRune(st, c) ==
    IF c = "_" THEN [st EXCEPT !.makeUpper = TRUE]
    ELSE IF c = "." THEN [ret |-> st.ret \o "_", makeUpper |-> TRUE]
    ELSE LET r1 == IF Len(st.ret) = 0 /\ IsNumberRune(c)
                   THEN st.ret \o "_" ELSE st.ret
         IN  IF st.makeUpper
             THEN [ret |-> r1 \o ToUpperRune(c), makeUpper |-> FALSE]
             ELSE [ret |-> r1 \o c, makeUpper |-> st.makeUpper]

RECURSIVE typePrefixFrom(_, _, _)
typePrefixFrom(st, packageName, i) ==
    IF i > Len(packageName) THEN st
    ELSE typePrefixFrom(typePrefixRune(st, Char(packageName, i)),
                        packageName, i + 1)

typePrefixInternal(packageName, swiftPrefix) ==
    IF Len(swiftPrefix) > 0 THEN swiftPrefix
    ELSE IF Len(packageName) = 0 THEN ""
    ELSE typePrefixFrom([ret |-> "", makeUpper |-> TRUE], packageName, 1).ret
             \o "_"

typePrefix(file) == typePrefixInternal(file.package, file.swiftPrefix)

(***************************************************************************)
(* The Full-Name Resolver.                                                 *)
(***************************************************************************)
\* relativeNameOfMessage sanitizing the local name alone, then prefixing it.
relativeNameOfMessageLocal(message) ==
    IF ParentIsMessage(message)
    THEN sanitizeMessage(message.name)
    ELSE typePrefix(message.file) \o sanitizeMessage(message.name)

\* relativeNameOfMessage running the local name through toUpperCamelCase first.
relativeNameOfMessageCamel(message) ==
    IF ParentIsMessage(message)
    THEN sanitizeMessage(toUpperCamelCase(message.name))
    ELSE sanitizeMessage(typePrefix(message.file)
                             \o toUpperCamelCase(message.name))

relativeNameOfMessage(message) ==
    IF ParentIsMessage(message)
    THEN sanitizeMessage(message.name)
    ELSE sanitizeMessage(typePrefix(message.file) \o message.name)

RECURSIVE fullNameOfMessage(_)
fullNameOfMessage(message) ==
    LET relativeName == relativeNameOfMessage(message)
    IN  IF ParentIsMessage(message)
        THEN fullNameOfMessage(ParentMessage(message)) \o "." \o relativeName
        ELSE relativeName

relativeNameOfEnum(enum) ==
    IF ParentIsMessage(enum)
    THEN sanitizeEnum(enum.name)
    ELSE sanitizeMessage(typePrefix(enum.file) \o enum.name)

fullNameOfEnum(enum) ==
    LET relativeName == relativeNameOfEnum(enum)
    IN  IF ParentIsMessage(enum)
        THEN fullNameOfMessage(ParentMessage(enum)) \o "." \o relativeName
        ELSE relativeName

relativeNameOfOneof(oneof) ==
    LET camelCase == toUpperCamelCase(oneof.name)
    IN  sanitizeOneof("OneOf_" \o camelCase)

fullNameOfOneof(oneof) ==
    fullNameOfMessage(ParentMessage(oneof)) \o "." \o relativeNameOfOneof(oneof)

(***************************************************************************)
(* The resolver harness: Init draws a descriptor (a file's package and     *)
(* prefix override, the enclosing messages, a local name and a kind); the  *)
(* action computes its generated identifier.                               *)
(***************************************************************************)
MaxNesting == 2

ResPackages == { "", "a.b", "foo.bar_baz" }

ResSwiftPrefixes == { "", "XYZ" }

ResNames == { "Outer", "Type", "Message", "http_status", "inner_msg",
              "TypeEnum" }

RECURSIVE NameChains(_)
NameChains(n) ==
    IF n = 0 THEN { << >> }
    ELSE NameChains(n - 1)
             \cup { Append(c, m) : c \in { x \in NameChains(n - 1) : Len(x) = n - 1 },
                                   m \in ResNames }

ResDescriptors ==
    { [kind |-> k,
       d |-> Descriptor([package |-> p, swiftPrefix |-> sp], c, n)] :
      k \in Kinds, p \in ResPackages, sp \in ResSwiftPrefixes,
      c \in NameChains(MaxNesting), n \in ResNames }

InitResolve ==
    /\ res \in { [pc |-> "start", kind |-> x.kind, d |-> x.d, out |-> ""] :
                 x \in { y \in ResDescriptors :
                           y.kind = "Oneof" => ParentIsMessage(y.d) } }
    /\ san = Idle
    /\ tr = Idle
    /\ MainIdle

Resolve ==
    /\ res.pc = "start"
    /\ res' = [res EXCEPT
                 !.pc = "done",
                 !.out = CASE res.kind = "Message" -> fullNameOfMessage(res.d)
                           [] res.kind = "Enum" -> fullNameOfEnum(res.d)
                           [] res.kind = "Oneof" -> fullNameOfOneof(res.d)]
    /\ UNCHANGED <<san, tr, mainVars>>

NextResolve == Resolve

SpecResolve == InitResolve /\ [][NextResolve]_vars

\* What precedes the local-name component in a generated identifier: the
\* parent's identifier and a dot, or the file's type prefix.
ResLead ==
    IF ParentIsMessage(res.d)
    THEN fullNameOfMessage(ParentMessage(res.d)) \o "."
    ELSE typePrefix(res.d.file)

ResTopLevelMessage ==
    /\ res.pc = "done"
    /\ res.kind = "Message"
    /\ ~ParentIsMessage(res.d)
    /\ res.d.file.swiftPrefix = ""

\* C3 (as stated): a top-level message's identifier is prefix(file) followed by
\* the local name sanitized alone, so "Type" yields prefix(file) + "TypeMessage"
\* in every package.
C3_SanitizedLocalAfterPrefix ==
    ResTopLevelMessage =>
        res.out = typePrefix(res.d.file) \o sanitizeMessage(res.d.name)

\* C3 (amended): a top-level message's identifier is the sanitizer applied to the
\* concatenation prefix(file) + local name: "Type" yields "TypeMessage" in the
\* empty package, where the concatenation is the reserved word itself, and the
\* unsuffixed "A_B_Type" in package a.b.
C3_SanitizedConcatenation ==
    ResTopLevelMessage =>
        /\ res.out = sanitizeMessage(typePrefix(res.d.file) \o res.d.name)
        /\ (res.d.name = "Type" /\ res.d.file.package = "a.b")
               => res.out = "A_B_Type"
        /\ (res.d.name = "Type" /\ res.d.file.package = "")
               => res.out = "TypeMessage"

\* C3 witness: the top-level message Type of a file in package a.b.
C3_Witness ==
    /\ ResTopLevelMessage
    /\ res.d.name = "Type"
    /\ res.d.file.package = "a.b"
    /\ res.out = "A_B_Type"

\* C4 (as stated): the local-name component of a message's or enum's identifier
\* starts with the CamelCase transform of its schema local name.
C4_LocalNameCamelCased ==
    (res.pc = "done" /\ res.kind \in { "Message", "Enum" }) =>
        HasPrefix(res.out, ResLead \o toUpperCamelCase(res.d.name))

\* C4 (amended): no CamelCase transform is applied to a message's or an enum's
\* local name: the identifier ends with the schema local name verbatim, followed
\* by at most one kind suffix, so http_status yields "http_status" and inner_msg
\* nested in Outer yields "Outer.inner_msg".
C4_LocalNameVerbatim ==
    (res.pc = "done" /\ res.kind \in { "Message", "Enum" }) =>
        /\ res.out \in { ResLead \o res.d.name \o s : s \in { "", "Message", "Enum" } }
        /\ (res.d.name = "http_status" /\ ~ParentIsMessage(res.d)
              /\ typePrefix(res.d.file) = "")
               => res.out = "http_status"
        /\ (res.d.name = "inner_msg" /\ res.d.parents = <<"Outer">>
              /\ typePrefix(res.d.file) = "")
               => res.out = "Outer.inner_msg"

\* C4 witness: the message inner_msg nested in Outer.
C4_Witness ==
    /\ res.pc = "done"
    /\ res.kind = "Message"
    /\ res.d.name = "inner_msg"
    /\ res.d.parents = <<"Outer">>
    /\ res.d.file.package = ""
    /\ res.d.file.swiftPrefix = ""
    /\ res.out = "Outer.inner_msg"

ResMessageInOuter ==
    /\ res.pc = "done"
    /\ res.kind = "Message"
    /\ res.d.name = "Message"
    /\ res.d.parents = <<"Outer">>
    /\ res.d.file.package = ""
    /\ res.d.file.swiftPrefix = ""

\* C5 (as stated): a message named Message nested in the top-level message
\* Outer of a file with empty package and no override resolves to
\* "Outer.MessageMessage".
C5_MessageGetsSuffix ==
    ResMessageInOuter => res.out = "Outer.MessageMessage"

\* C5 (amended): that message resolves to "Outer.Message": stripping the suffix
\* leaves the empty string, which is neither reserved nor all underscores, so
\* the suffix is re-appended once and the name comes back unchanged.
C5_MessageUnchanged ==
    ResMessageInOuter => res.out = "Outer.Message"

\* C5 witness: the message Message nested in Outer has been resolved.
C5_Witness ==
    ResMessageInOuter /\ res.out = "Outer.Message"

\* C7: every enum is sanitized under the kind Enum, top-level or nested: when
\* the sanitizer changes an enum's candidate identifier, what it appends is
\* "Enum" and never "Message" (a top-level enum Type yields "TypeEnum").
C7_EnumSuffix ==
    (res.pc = "done" /\ res.kind = "Enum") =>
        res.out \in { ResLead \o res.d.name, ResLead \o res.d.name \o "Enum" }

(***************************************************************************)
(* main().  The request is what arrives on standard input: bytes that do   *)
(* not decode, or a list of files.  A file is its name, package, prefix    *)
(* override, top-level messages and top-level enums; a message is its      *)
(* name, oneofs, nested messages and nested enums.                         *)
(***************************************************************************)
MaxFiles == 2

MaxDepth == 1

\* Bytes on standard input that proto.Unmarshal rejects.
Undecodable == [decodes |-> FALSE, files |-> << >>]

FileNames == <<"a.proto", "b.proto", "c.proto", "d.proto">>

MainPackages == { "", "a.b" }

OneofLists == { << >>, <<"bar_baz">> }

EnumLists == { << >>, <<"Kind">> }

MessageDecl(name, oneofs, messages, enums) ==
    [name |-> name, oneofs |-> oneofs, messages |-> messages, enums |-> enums]

\* The message trees nested at most depth deep; a message at nesting level
\* level is named after its level.
RECURSIVE MessageDecls(_, _)
MessageDecls(level, depth) ==
    LET name == IF level = 0 THEN "Foo" ELSE "Inner"
        leaves == { MessageDecl(name, o, << >>, e) :
                    o \in OneofLists, e \in EnumLists }
    IN  IF depth = 0 THEN leaves
        ELSE leaves \cup
             { MessageDecl(name, o, <<m>>, e) :
               o \in OneofLists, e \in EnumLists,
               m \in MessageDecls(level + 1, depth - 1) }

\* The files that may stand at position i of req.ProtoFile.
FileDecls(i) ==
    { [name |-> FileNames[i], package |-> p, swiftPrefix |-> "",
       messages |-> ms, enums |-> es] :
      p \in MainPackages,
      ms \in { << >> } \cup { <<m>> : m \in MessageDecls(0, MaxDepth) },
      es \in EnumLists }

\* The lists of at most n files.
RECURSIVE FileLists(_)
FileLists(n) ==
    IF n = 0 THEN { << >> }
    ELSE FileLists(n - 1)
             \cup { Append(fs, f) :
                    fs \in { x \in FileLists(n - 1) : Len(x) = n - 1 },
                    f \in FileDecls(n) }

Requests ==
    { Undecodable } \cup
    { [decodes |-> TRUE, files |-> fs] : fs \in FileLists(MaxFiles) }

\* The schema full names a file declares at the top level.
TopLevelNames(file) ==
    { FullName(Descriptor(file, << >>, file.messages[i].name)) :
      i \in 1..Len(file.messages) }
        \cup { FullName(Descriptor(file, << >>, file.enums[i])) :
               i \in 1..Len(file.enums) }

\* protoregistry refuses to register two files declaring the same full name.
NameConflict(files) ==
    \E i, j \in 1..Len(files) :
        i < j /\ TopLevelNames(files[i]) \cap TopLevelNames(files[j]) # { }

\* What log.Fatalln leaves on the diagnostic stream.
LogLine == "log.Fatalln"

\* fmt.Fprintln(writer, a, b): the operands separated by a space, one line.
Line(a, b) == a \o " " \o b

\* The next position of the loops over a file at or after cur: a message, one
\* of its oneofs, a top-level enum, or the end of the file.
RECURSIVE Settle(_, _)
Settle(file, cur) ==
    CASE cur.at = "message" ->
           IF cur.i <= Len(file.messages) THEN cur
           ELSE Settle(file, [at |-> "enum", i |-> 1, j |-> 0])
      [] cur.at = "oneof" ->
           IF cur.j <= Len(file.messages[cur.i].oneofs) THEN cur
           ELSE Settle(file, [at |-> "message", i |-> cur.i + 1, j |-> 0])
      [] cur.at = "enum" ->
           IF cur.i <= Len(file.enums) THEN cur
           ELSE [at |-> "end", i |-> 0, j |-> 0]

NoCursor == [at |-> "none", i |-> 0, j |-> 0]

Init ==
    /\ request \in Requests
    /\ pc = "ReadAll"
    /\ fileIdx = 0
    /\ cursor = NoCursor
    /\ buf = << >>
    /\ stderr = << >>
    /\ stdout = << >>
    /\ exit = << >>
    /\ san = Idle
    /\ tr = Idle
    /\ res = Idle

\* log.Fatalln: the message goes to the diagnostic stream, the process exits 1.
Fatalln ==
    /\ pc' = "exited"
    /\ exit' = <<1>>
    /\ stderr' = Append(stderr, LogLine)
    /\ UNCHANGED <<request, fileIdx, cursor, buf, stdout>>

\* io.ReadAll(os.Stdin), which the environment may fail.
ReadAll ==
    /\ pc = "ReadAll"
    /\ \E ok \in BOOLEAN :
          IF ok
          THEN /\ pc' = "Unmarshal"
               /\ UNCHANGED <<request, fileIdx, cursor, buf, stderr, stdout, exit>>
          ELSE Fatalln
    /\ UNCHANGED <<san, tr, res>>

\* proto.Unmarshal(readAll, req)
Unmarshal ==
    /\ pc = "Unmarshal"
    /\ IF ~request.decodes
       THEN Fatalln
       ELSE /\ pc' = "NewFiles"
            /\ UNCHANGED <<request, fileIdx, cursor, buf, stderr, stdout, exit>>
    /\ UNCHANGED <<san, tr, res>>

\* protodesc.NewFiles: it fails on files declaring the same name, and may fail
\* on the parts of a descriptor the model leaves out (fields, dependencies).
NewFiles ==
    /\ pc = "NewFiles"
    /\ \E ok \in (IF NameConflict(request.files) THEN { FALSE } ELSE BOOLEAN) :
          IF ok
          THEN /\ pc' = "FindFile"
               /\ fileIdx' = 1
               /\ UNCHANGED <<request, cursor, buf, stderr, stdout, exit>>
          ELSE Fatalln
    /\ UNCHANGED <<san, tr, res>>

\* The head of the loop over req.ProtoFile: files.FindFileByPath, whose error
\* the registry decides, or the end of the loop.
FindFile ==
    /\ pc = "FindFile"
    /\ IF fileIdx > Len(request.files)
       THEN /\ pc' = "Respond"
            /\ UNCHANGED <<request, fileIdx, cursor, buf, stderr, stdout, exit>>
       ELSE \E found \in BOOLEAN :
               IF found
               THEN /\ pc' = "Emit"
                    /\ cursor' = Settle(request.files[fileIdx],
                                        [at |-> "message", i |-> 1, j |-> 0])
                    /\ UNCHANGED <<request, fileIdx, buf, stderr, stdout, exit>>
               ELSE Fatalln
    /\ UNCHANGED <<san, tr, res>>

\* io.MultiWriter(buf, os.Stderr): a line goes to both.
WriteLine(line) ==
    /\ buf' = Append(buf, line)
    /\ stderr' = Append(stderr, line)

\* The record of top-level message i of the current file.
EmitMessage ==
    /\ pc = "Emit"
    /\ cursor.at = "message"
    /\ LET file == request.files[fileIdx]
           message == Descriptor(file, << >>, file.messages[cursor.i].name)
       IN  /\ WriteLine(Line(FullName(message), fullNameOfMessage(message)))
           /\ cursor' = Settle(file, [at |-> "oneof", i |-> cursor.i, j |-> 1])
    /\ UNCHANGED <<request, pc, fileIdx, stdout, exit, san, tr, res>>

\* The record of oneof j of top-level message i.
EmitOneof ==
    /\ pc = "Emit"
    /\ cursor.at = "oneof"
    /\ LET file == request.files[fileIdx]
           message == file.messages[cursor.i]
           oneof == Descriptor(file, <<message.name>>, message.oneofs[cursor.j])
       IN  /\ WriteLine(Line(FullName(oneof), fullNameOfOneof(oneof)))
           /\ cursor' = Settle(file, [cursor EXCEPT !.j = cursor.j + 1])
    /\ UNCHANGED <<request, pc, fileIdx, stdout, exit, san, tr, res>>

\* The record of top-level enum i of the current file.
EmitEnum ==
    /\ pc = "Emit"
    /\ cursor.at = "enum"
    /\ LET file == request.files[fileIdx]
           enum == Descriptor(file, << >>, file.enums[cursor.i])
       IN  /\ WriteLine(Line(FullName(enum), fullNameOfEnum(enum)))
           /\ cursor' = Settle(file, [cursor EXCEPT !.i = cursor.i + 1])
    /\ UNCHANGED <<request, pc, fileIdx, stdout, exit, san, tr, res>>

\* The end of one iteration of the loop over req.ProtoFile.
NextFile ==
    /\ pc = "Emit"
    /\ cursor.at = "end"
    /\ pc' = "FindFile"
    /\ fileIdx' = fileIdx + 1
    /\ cursor' = NoCursor
    /\ UNCHANGED <<request, buf, stderr, stdout, exit, san, tr, res>>

\* proto.Marshal of the response and os.Stdout.Write, either of which may fail;
\* a failed write delivers no complete response.
Respond ==
    /\ pc = "Respond"
    /\ \E ok \in BOOLEAN :
          IF ok
          THEN /\ stdout' = <<[name |-> "mapper.txt", content |-> buf]>>
               /\ pc' = "exited"
               /\ exit' = <<0>>
               /\ UNCHANGED <<request, fileIdx, cursor, buf, stderr>>
          ELSE Fatalln
    /\ UNCHANGED <<san, tr, res>>

Next ==
    \/ ReadAll
    \/ Unmarshal
    \/ NewFiles
    \/ FindFile
    \/ EmitMessage
    \/ EmitOneof
    \/ EmitEnum
    \/ NextFile
    \/ Respond

Spec == Init /\ [][Next]_vars

(***************************************************************************)
(* The table a run emitted, and the entities its files declare.            *)
(***************************************************************************)
\* The schema full name of a table line: the text before its space.
SchemaNameOf(line) ==
    SubSeq(line, 1, (CHOOSE i \in 1..Len(line) : Char(line, i) = " ") - 1)

\* The table lines on the diagnostic stream.
StderrTable == SelectSeq(stderr, LAMBDA l : l # LogLine)

\* The table in the response on standard output.
StdoutTable == IF stdout = << >> THEN << >> ELSE stdout[1].content

\* Every message (at every depth), enum and oneof under the messages ms, whose
\* enclosing messages are parents: its full name, kind and parent's full name.
RECURSIVE EntitiesUnder(_, _, _)
EntitiesUnder(file, parents, ms) ==
    UNION {
        LET m == ms[i]
            self == Descriptor(file, parents, m.name)
            inside == Append(parents, m.name)
        IN  { [name |-> FullName(self), kind |-> "Message",
               parent |-> IF Len(parents) = 0 THEN ""
                          ELSE FullName(ParentMessage(self))] }
                \cup { [name |-> FullName(Descriptor(file, inside, m.oneofs[j])),
                        kind |-> "Oneof", parent |-> FullName(self)] :
                       j \in 1..Len(m.oneofs) }
                \cup { [name |-> FullName(Descriptor(file, inside, m.enums[j])),
                        kind |-> "Enum", parent |-> FullName(self)] :
                       j \in 1..Len(m.enums) }
                \cup EntitiesUnder(file, inside, m.messages)
        : i \in 1..Len(ms) }

Entities(file) ==
    EntitiesUnder(file, << >>, file.messages)
        \cup { [name |-> FullName(Descriptor(file, << >>, file.enums[j])),
                kind |-> "Enum", parent |-> ""] : j \in 1..Len(file.enums) }

RequestEntities ==
    UNION { Entities(request.files[i]) : i \in 1..Len(request.files) }

TableNames == [i \in 1..Len(StdoutTable) |-> SchemaNameOf(StdoutTable[i])]

PositionOf(name) == CHOOSE i \in 1..Len(TableNames) : TableNames[i] = name

\* C1: the emitted table holds exactly one record for every message at every
\* nesting depth, every enum (top-level or nested) and every oneof of every
\* file, a nested message's record coming after its parent's record and the
\* parent's oneof records.
C1_EveryEntityOnce ==
    exit = <<0>> =>
        /\ { TableNames[i] : i \in 1..Len(TableNames) }
               = { e.name : e \in RequestEntities }
        /\ Len(TableNames) = Cardinality(RequestEntities)
        /\ \A e \in RequestEntities :
              (e.kind = "Message" /\ e.parent # "") =>
                  \A before \in RequestEntities :
                      (\/ before.name = e.parent
                       \/ before.kind = "Oneof" /\ before.parent = e.parent)
                          => PositionOf(before.name) < PositionOf(e.name)

\* C6: in a run that ends in a fatal condition no record line has been
\* written to any stream at the moment of abort, neither in the response on
\* standard output nor as a table line on the diagnostic stream.
C6_NoPartialOutput ==
    exit = <<1>> =>
        /\ StdoutTable = << >>
        /\ StderrTable = << >>

====
